---- MODULE Spec2Model ----
(***************************************************************************)
(* Model of the TAPIR client-side transaction coordinator                  *)
(* (store/tapir/client.cc): Begin, Get, Put, Prepare, Commit and Abort,    *)
(* the per-shard facades they talk to and the promises they wait on.       *)
(***************************************************************************)
EXTENDS Integers, Sequences, FiniteSets, TLC

\* ---------------------------------------------------------------- bounds
NShards == 2          \* nShards given to the constructor
MaxKey == 2           \* keys are 0..MaxKey
MaxTime == 2          \* clock readings and proposed timestamps are 1..MaxTime
MaxTxn == 1           \* number of Begin calls explored

\* ------------------------------------------------------------- constants
COMMIT_RETRIES == 3

REPLY_OK == "REPLY_OK"
REPLY_FAIL == "REPLY_FAIL"
REPLY_RETRY == "REPLY_RETRY"
REPLY_TIMEOUT == "REPLY_TIMEOUT"
\* a reply code outside the protocol's closed set
REPLY_OTHER == "REPLY_OTHER"

Replies == {REPLY_OK, REPLY_FAIL, REPLY_RETRY, REPLY_TIMEOUT, REPLY_OTHER}

Shards == 0 .. (NShards - 1)
Keys == 0 .. MaxKey
Times == 1 .. MaxTime
ClientIds == {7, 10007}

Indeterminate == -1

NoReturn == [op |-> "none", value |-> "none"]

VARIABLES
    client_id,      \* random non-zero identifier chosen by the constructor
    t_id,           \* current transaction id
    participants,   \* set of shards touched by the current transaction
    pc,             \* position of the (single) calling thread
    caller,         \* who called Abort: "app" or "commit"
    opShard,        \* Get/Put: local i
    opPromise,      \* Get/Put: the stack-allocated promise
    timestamp,      \* Commit: local timestamp, passed by reference to Prepare
    status,         \* Commit: local status
    pstatus,        \* Prepare: local status
    retries,        \* member retries
    promises,       \* Prepare: local list of promises
    ts,             \* Prepare: local ts (declared without initializer)
    now,            \* Prepare: local now
    idx,            \* position of the loop in progress
    aborts,         \* Abort: local list of promises
    began,          \* facade: id carried by the last Begin received per shard
    beginCount,     \* facade: Begins received per shard in this transaction
    forwarded,      \* facade: a Get/Put of the current transaction arrived
    prepareSent,    \* facade: Prepares received per shard in this round
    prepareTs,      \* facade: timestamp carried by the Prepare of this round
    commitSent,     \* facade: Commits received per shard in this call
    abortSent,      \* facade: Aborts received per shard in this call
    ret,            \* what the last finished call returned
    touched,        \* history: shards of the keys passed to Get/Put since Begin
    rounds,         \* history: Prepare rounds started by this Commit call
    unanimous,      \* history: every promise of the last finished round was OK
    failRound,      \* history: first round in which a promise resolved to FAIL
    candidate       \* history: timestamp given to Commit, then produced by Prepare

vars == << client_id, t_id, participants, pc, caller, opShard, opPromise,
           timestamp, status, pstatus, retries, promises, ts, now, idx,
           aborts, began, beginCount, forwarded, prepareSent, prepareTs,
           commitSent, abortSent, ret, touched, rounds, unanimous, failRound,
           candidate >>

coordVars == << client_id, t_id, participants >>
opVars == << opShard, opPromise >>
commitVars == << timestamp, status, pstatus, retries, promises, ts, now >>
facadeTxn == << began, beginCount, forwarded >>
facadeCommit == << prepareSent, prepareTs, commitSent, abortSent >>
histCommit == << rounds, unanimous, failRound, candidate >>

\* ---------------------------------------------------------------- helpers
Min(S) == CHOOSE x \in S : \A y \in S : x <= y

\* iteration order of std::set<int>: ascending
RECURSIVE Ascending(_)
Ascending(S) == IF S = {} THEN << >>
                ELSE << Min(S) >> \o Ascending(S \ {Min(S)})

Sat(n) == IF n >= 2 THEN 2 ELSE n + 1

Zero == [s \in Shards |-> 0]

NoBegin == [s \in Shards |-> -1]

key_to_shard(key, nshards) == key % nshards

\* every promise of the list has resolved to REPLY_OK
AllOK(ps) == \A i \in 1 .. Len(ps) :
                ps[i].state = "resolved" /\ ps[i].reply = REPLY_OK

\* variant: the fan-out visits every shard of the deployment
Targets_AllShards == Ascending(Shards)

\* for (auto p : participants)
Targets == Ascending(participants)

\* variant: the wait has no deadline, a timed-out promise never wakes it
GetReplyReturns_NoDeadline(p) ==
    p.state = "resolved" /\ p.reply # REPLY_TIMEOUT

\* variant: GetReply returns without waiting for the promise
GetReplyReturns_NoWait(p) == TRUE

\* p->GetReply() returns once the promise has a reply or has timed out
GetReplyReturns(p) == p.state = "resolved"

NewPromise(p) == [shard |-> p, state |-> "pending", reply |-> "none",
                  ts |-> 0, deleted |-> FALSE]

\* the locals of a finished call are gone when the next call starts, and the
\* per-call observations start afresh
NoTimestamp == [time |-> 0, id |-> 0]

NoPrepareTs == [s \in Shards |-> NoTimestamp]

NewCall ==
    /\ timestamp' = NoTimestamp
    /\ status' = "none"
    /\ pstatus' = "none"
    /\ promises' = << >>
    /\ aborts' = << >>
    /\ ts' = 0
    /\ now' = 0
    /\ idx' = 0
    /\ prepareSent' = Zero
    /\ prepareTs' = NoPrepareTs
    /\ commitSent' = Zero
    /\ abortSent' = Zero
    /\ rounds' = 0
    /\ unanimous' = FALSE
    /\ failRound' = 0
    /\ candidate' = NoTimestamp

\* ------------------------------------------------------------ constructor
Init ==
    /\ client_id \in ClientIds
    /\ t_id = (client_id \div 10000) * 10000
    /\ participants = {}
    /\ pc = "idle"
    /\ caller = "app"
    /\ opShard = 0
    /\ opPromise = "none"
    /\ timestamp = NoTimestamp
    /\ status = "none"
    /\ pstatus = "none"
    /\ retries = 0
    /\ promises = << >>
    /\ ts = 0
    /\ now = 0
    /\ idx = 0
    /\ aborts = << >>
    /\ began = NoBegin
    /\ beginCount = Zero
    /\ forwarded = [s \in Shards |-> FALSE]
    /\ prepareSent = Zero
    /\ prepareTs = NoPrepareTs
    /\ commitSent = Zero
    /\ abortSent = Zero
    /\ ret = NoReturn
    /\ touched = {}
    /\ rounds = 0
    /\ unanimous = FALSE
    /\ failRound = 0
    /\ candidate = NoTimestamp

\* ------------------------------------------------------------------ Begin
\* variant: the transaction id is not advanced
NextTid_Same(t) == t

\* t_id++
NextTid(t) == t + 1

Begin ==
    /\ pc = "idle"
    /\ t_id < (client_id \div 10000) * 10000 + MaxTxn
    /\ t_id' = NextTid(t_id)
    /\ participants' = {}
    /\ ret' = [op |-> "Begin", value |-> "none"]
    /\ touched' = {}
    /\ beginCount' = Zero
    /\ forwarded' = [s \in Shards |-> FALSE]
    /\ opShard' = 0
    /\ NewCall
    /\ UNCHANGED << client_id, pc, caller, opPromise, retries, began >>

\* ---------------------------------------------------------------- Get/Put
\* variant: the shard is begun but not recorded as a participant
Register_Forgets(i) ==
    /\ began' = [began EXCEPT ![i] = t_id]
    /\ beginCount' = [beginCount EXCEPT ![i] = Sat(@)]
    /\ UNCHANGED participants

\* variant: BEGIN is sent on every operation
Register_AlwaysBegins(i) ==
    /\ participants' = participants \cup {i}
    /\ began' = [began EXCEPT ![i] = t_id]
    /\ beginCount' = [beginCount EXCEPT ![i] = Sat(@)]

\* "If needed, add this shard to set of participants and send BEGIN."
Register(i) ==
    IF i \notin participants
    THEN /\ participants' = participants \cup {i}
         /\ began' = [began EXCEPT ![i] = t_id]
         /\ beginCount' = [beginCount EXCEPT ![i] = Sat(@)]
    ELSE UNCHANGED << participants, began, beginCount >>

Get(key) ==
    /\ pc = "idle"
    /\ LET i == key_to_shard(key, NShards) IN
        /\ opShard' = i
        /\ Register(i)
        /\ touched' = touched \cup {key_to_shard(key, NShards)}
    /\ pc' = "get_send"
    /\ ret' = NoReturn
    /\ NewCall
    /\ UNCHANGED << client_id, t_id, caller, opPromise, retries, forwarded >>

Put(key) ==
    /\ pc = "idle"
    /\ LET i == key_to_shard(key, NShards) IN
        /\ opShard' = i
        /\ Register(i)
        /\ touched' = touched \cup {key_to_shard(key, NShards)}
    /\ pc' = "put_send"
    /\ ret' = NoReturn
    /\ NewCall
    /\ UNCHANGED << client_id, t_id, caller, opPromise, retries, forwarded >>

\* Promise promise(..); bclient[i]->Get/Put(.., &promise);
OpSend ==
    /\ pc \in {"get_send", "put_send"}
    /\ opPromise' = "pending"
    /\ forwarded' = [forwarded EXCEPT ![opShard] = TRUE]
    /\ pc' = IF pc = "get_send" THEN "get_wait" ELSE "put_wait"
    /\ UNCHANGED << coordVars, caller, opShard, commitVars, idx, aborts,
                    began, beginCount, facadeCommit, ret, touched,
                    histCommit >>

\* the transport fills the promise, or its timeout expires
OpResolve(r) ==
    /\ pc \in {"get_wait", "put_wait"}
    /\ opPromise = "pending"
    /\ opPromise' = r
    /\ UNCHANGED << coordVars, pc, caller, opShard, commitVars, idx, aborts,
                    facadeTxn, facadeCommit, ret, touched, histCommit >>

\* variant: the shard's status is swallowed
OpStatus_AlwaysOK(r) == REPLY_OK

\* the status Get and Put hand back: promise.GetReply()
OpStatus(r) == r

\* return promise.GetReply();
OpReturn ==
    /\ pc \in {"get_wait", "put_wait"}
    /\ opPromise \in Replies
    /\ ret' = [op |-> IF pc = "get_wait" THEN "Get" ELSE "Put",
               value |-> OpStatus(opPromise)]
    /\ opPromise' = "none"
    /\ pc' = "idle"
    /\ UNCHANGED << coordVars, caller, opShard, commitVars, idx, aborts,
                    facadeTxn, facadeCommit, touched, histCommit >>

\* ----------------------------------------------------------------- Commit
\* Timestamp timestamp(timeServer.GetTime(), client_id); retries = 0
CommitCall ==
    /\ pc = "idle"
    /\ \E t \in Times :
        /\ timestamp' = [time |-> t, id |-> client_id]
        /\ candidate' = [time |-> t, id |-> client_id]
    /\ retries' = 0
    /\ status' = "none"
    /\ pstatus' = "none"
    /\ promises' = << >>
    /\ aborts' = << >>
    /\ pc' = "commit_loop"
    /\ ret' = NoReturn
    /\ prepareSent' = Zero
    /\ prepareTs' = NoPrepareTs
    /\ commitSent' = Zero
    /\ abortSent' = Zero
    /\ rounds' = 0
    /\ unanimous' = FALSE
    /\ failRound' = 0
    /\ ts' = 0
    /\ now' = 0
    /\ idx' = 0
    /\ opShard' = 0
    /\ UNCHANGED << coordVars, caller, opPromise, facadeTxn, touched >>

\* variant: the assertion is compiled out
NonEmpty_Unchecked(ps) == TRUE

\* ASSERT(participants.size() > 0)
NonEmpty(ps) == Cardinality(ps) > 0

\* variant: off-by-one loop bound
LoopTest_OneMore(r) == r <= COMMIT_RETRIES

\* retries < COMMIT_RETRIES
LoopTest(r) == r < COMMIT_RETRIES

\* for (...; retries < COMMIT_RETRIES; ...) status = Prepare(timestamp);
\* Prepare: ASSERT(participants.size() > 0)
CommitLoop ==
    /\ pc = "commit_loop"
    /\ IF LoopTest(retries)
       THEN /\ rounds' = rounds + 1
            /\ promises' = << >>
            /\ prepareSent' = Zero
            /\ prepareTs' = NoPrepareTs
            /\ ts' = Indeterminate
            /\ now' = 0
            /\ idx' = 1
            /\ pc' = IF NonEmpty(participants)
                     THEN "prepare_send" ELSE "fatal"
       ELSE /\ pc' = "commit_decide"
            /\ UNCHANGED << rounds, promises, prepareSent, prepareTs, ts, now,
                            idx >>
    /\ UNCHANGED << coordVars, caller, opVars, timestamp, status, pstatus,
                    retries, aborts, facadeTxn, commitSent, abortSent,
                    ret, touched, unanimous, failRound, candidate >>

\* for (auto p : participants) { promises.push_back(new Promise(..));
\*                               bclient[p]->Prepare(timestamp, ..); }
PrepareSend ==
    /\ pc = "prepare_send"
    /\ idx <= Len(Targets)
    /\ LET p == Targets[idx] IN
        /\ promises' = Append(promises, NewPromise(p))
        /\ prepareSent' = [prepareSent EXCEPT ![p] = Sat(@)]
        /\ prepareTs' = [prepareTs EXCEPT ![p] = timestamp]
    /\ idx' = idx + 1
    /\ UNCHANGED << coordVars, pc, caller, opVars, timestamp, status, pstatus,
                    retries, ts, now, aborts, facadeTxn, commitSent,
                    abortSent, ret, touched, histCommit >>

\* int status = REPLY_OK;
PrepareVotes ==
    /\ pc = "prepare_send"
    /\ idx > Len(Targets)
    /\ pstatus' = REPLY_OK
    /\ idx' = 1
    /\ pc' = "prepare_reduce"
    /\ UNCHANGED << coordVars, caller, opVars, timestamp, status, retries,
                    promises, ts, now, aborts, facadeTxn, facadeCommit, ret,
                    touched, histCommit >>

\* the transport fills a Prepare promise, or its timeout expires
PrepareResolve(i, r, t) ==
    /\ pc \in {"prepare_send", "prepare_reduce"}
    /\ i \in 1 .. Len(promises)
    /\ promises[i].state = "pending"
    /\ promises' = [promises EXCEPT ![i].state = "resolved", ![i].reply = r,
                        ![i].ts = IF r = REPLY_RETRY THEN t ELSE 0]
    /\ failRound' = IF r = REPLY_FAIL /\ failRound = 0 THEN rounds
                    ELSE failRound
    /\ UNCHANGED << coordVars, pc, caller, opVars, timestamp, status, pstatus,
                    retries, ts, now, idx, aborts, facadeTxn, facadeCommit,
                    ret, touched, rounds, unanimous, candidate >>

\* variant: a FAIL vote is retried like a RETRY vote
Reduce_FailRetried(st, reply) ==
    CASE reply = REPLY_OK -> st
      [] reply \in {REPLY_FAIL, REPLY_RETRY, REPLY_TIMEOUT} -> REPLY_RETRY
      [] OTHER -> "fatal"

\* variant: an unknown reply code is skipped like an OK vote
Reduce_IgnoresUnknown(st, reply) ==
    CASE reply = REPLY_FAIL -> REPLY_FAIL
      [] reply = REPLY_RETRY -> REPLY_RETRY
      [] reply = REPLY_TIMEOUT -> REPLY_RETRY
      [] OTHER -> st

\* variant: a timeout is taken for a rejection
Reduce_TimeoutFails(st, reply) ==
    CASE reply = REPLY_OK -> st
      [] reply \in {REPLY_FAIL, REPLY_TIMEOUT} -> REPLY_FAIL
      [] reply = REPLY_RETRY -> REPLY_RETRY
      [] OTHER -> "fatal"

\* what one vote does to the running status (the switch in Prepare)
Reduce(st, reply) ==
    CASE reply = REPLY_OK -> st
      [] reply = REPLY_FAIL -> REPLY_FAIL
      [] reply = REPLY_RETRY -> REPLY_RETRY
      [] reply = REPLY_TIMEOUT -> REPLY_RETRY
      [] OTHER -> "fatal"

\* variant: a RETRY vote also leaves Prepare at once
ReturnsAtOnce_OnRetry(reply) == reply \in {REPLY_FAIL, REPLY_RETRY}

\* which cases of the switch leave Prepare without reading further votes
ReturnsAtOnce(reply) == reply = REPLY_FAIL

\* which cases of the switch fall through to "delete p"
Deletes(reply) == reply \in {REPLY_RETRY, REPLY_TIMEOUT}

\* "proposed > ts": ts is declared without an initializer, so until it is
\* assigned the comparison can come out either way
Greater(proposed, t) == IF t = Indeterminate THEN BOOLEAN
                        ELSE {proposed > t}

\* for (auto p : promises) { switch (p->GetReply()) ... delete p; }
\* GetReply blocks until the promise is resolved.
PrepareReduce ==
    /\ pc = "prepare_reduce"
    /\ idx <= Len(promises)
    /\ GetReplyReturns(promises[idx])
    /\ LET p == promises[idx]
           proposed == p.ts
           st == Reduce(pstatus, p.reply)
       IN  /\ \E gt \in Greater(proposed, ts) :
                ts' = IF p.reply = REPLY_RETRY /\ gt THEN proposed ELSE ts
           /\ promises' = [promises EXCEPT ![idx].deleted = Deletes(p.reply)]
           /\ IF st = "fatal"
              THEN \* NOT_IMPLEMENTED()
                   /\ pc' = "fatal"
                   /\ UNCHANGED << status, pstatus, idx >>
              ELSE IF ReturnsAtOnce(p.reply)
              THEN \* return REPLY_FAIL
                   /\ status' = st
                   /\ pc' = "commit_check"
                   /\ UNCHANGED << pstatus, idx >>
              ELSE /\ pstatus' = st
                   /\ idx' = idx + 1
                   /\ UNCHANGED << status, pc >>
    /\ unanimous' = IF pc' = "commit_check" THEN AllOK(promises)
                    ELSE unanimous
    /\ UNCHANGED << coordVars, caller, opVars, timestamp, retries, now,
                    aborts, facadeTxn, facadeCommit, ret, touched, rounds,
                    failRound, candidate >>

\* variant: Prepare takes the timestamp by value
ByReference_ByValue(old, new) == old

\* Prepare(Timestamp &timestamp): the caller's timestamp is the one written
ByReference(old, new) == new

\* if (now > proposed) timestamp.setTimestamp(now);
\* else timestamp.setTimestamp(proposed);    with the outer proposed
NextTimestamp(n, proposed) == IF n > proposed THEN n ELSE proposed

\* if (status == REPLY_RETRY) { now = timeServer.GetTime(); ... }
\* return status;
PrepareReturn ==
    /\ pc = "prepare_reduce"
    /\ idx > Len(promises)
    /\ LET proposed == 0 IN
        IF pstatus = REPLY_RETRY
        THEN \E n \in Times :
                LET next == [timestamp EXCEPT
                                !.time = NextTimestamp(n, proposed)]
                IN  /\ now' = n
                    /\ timestamp' = ByReference(timestamp, next)
                    /\ candidate' = next
        ELSE UNCHANGED << now, timestamp, candidate >>
    /\ status' = pstatus
    /\ pc' = "commit_check"
    /\ unanimous' = AllOK(promises)
    /\ UNCHANGED << coordVars, caller, opVars, pstatus, retries, promises,
                    ts, idx, aborts, facadeTxn, facadeCommit, ret, touched,
                    rounds, failRound >>

\* status = Prepare(timestamp) has returned and its locals are gone;
\* if (status == REPLY_RETRY) continue; else break;
CommitCheck ==
    /\ pc = "commit_check"
    /\ IF status = REPLY_RETRY
       THEN /\ retries' = retries + 1
            /\ pc' = "commit_loop"
       ELSE /\ pc' = "commit_decide"
            /\ UNCHANGED retries
    /\ promises' = << >>
    /\ pstatus' = "none"
    /\ ts' = 0
    /\ now' = 0
    /\ idx' = 0
    /\ UNCHANGED << coordVars, caller, opVars, timestamp, status, aborts,
                    facadeTxn, facadeCommit, ret, touched, histCommit >>

\* variant: the test is negated
Accepted_Inverted(st) == st # REPLY_OK

\* variant: exhausted retries are taken for acceptance
Accepted_NotFail(st) == st # REPLY_FAIL

\* if (status == REPLY_OK)
Accepted(st) == st = REPLY_OK

\* if (status == REPLY_OK) { commit fan-out } else Abort();
CommitDecide ==
    /\ pc = "commit_decide"
    /\ idx' = 1
    /\ IF Accepted(status)
       THEN /\ pc' = "commit_send"
            /\ UNCHANGED << caller, aborts >>
       ELSE /\ pc' = "abort_send"
            /\ caller' = "commit"
            /\ aborts' = << >>
    /\ UNCHANGED << coordVars, opVars, commitVars, facadeTxn, facadeCommit,
                    ret, touched, histCommit >>

\* for (auto p : participants) bclient[p]->Commit(0);
CommitSend ==
    /\ pc = "commit_send"
    /\ idx <= Len(Targets)
    /\ LET p == Targets[idx] IN
        commitSent' = [commitSent EXCEPT ![p] = Sat(@)]
    /\ idx' = idx + 1
    /\ UNCHANGED << coordVars, pc, caller, opVars, commitVars, aborts,
                    facadeTxn, prepareSent, prepareTs, abortSent, ret, touched,
                    histCommit >>

\* variant: the finished transaction's participants are dropped on return
Retained_Cleared(ps) == {}

\* Commit and Abort return without writing participants
Retained(ps) == ps

\* return true;
CommitReturn ==
    /\ pc = "commit_send"
    /\ idx > Len(Targets)
    /\ ret' = [op |-> "Commit", value |-> TRUE]
    /\ pc' = "idle"
    /\ participants' = Retained(participants)
    /\ UNCHANGED << client_id, t_id, caller, opVars, commitVars, idx, aborts,
                    facadeTxn, facadeCommit, touched, histCommit >>

\* ------------------------------------------------------------------ Abort
\* Abort() called by the application
AbortCall ==
    /\ pc = "idle"
    /\ caller' = "app"
    /\ aborts' = << >>
    /\ promises' = << >>
    /\ idx' = 1
    /\ pc' = "abort_send"
    /\ ret' = NoReturn
    /\ prepareSent' = Zero
    /\ prepareTs' = NoPrepareTs
    /\ commitSent' = Zero
    /\ abortSent' = Zero
    /\ rounds' = 0
    /\ unanimous' = FALSE
    /\ failRound' = 0
    /\ candidate' = NoTimestamp
    /\ timestamp' = NoTimestamp
    /\ status' = "none"
    /\ pstatus' = "none"
    /\ ts' = 0
    /\ now' = 0
    /\ opShard' = 0
    /\ UNCHANGED << coordVars, opPromise, retries, facadeTxn, touched >>

\* for (auto p : participants) { promises.push_back(new Promise(..));
\*                               bclient[p]->Abort(promises.back()); }
AbortSend ==
    /\ pc = "abort_send"
    /\ idx <= Len(Targets)
    /\ LET p == Targets[idx] IN
        /\ aborts' = Append(aborts, NewPromise(p))
        /\ abortSent' = [abortSent EXCEPT ![p] = Sat(@)]
    /\ idx' = idx + 1
    /\ UNCHANGED << coordVars, pc, caller, opVars, commitVars, facadeTxn,
                    prepareSent, prepareTs, commitSent, ret, touched,
                    histCommit >>

\* "Wait for responses for aborts"
AbortSent ==
    /\ pc = "abort_send"
    /\ idx > Len(Targets)
    /\ idx' = 1
    /\ pc' = "abort_wait"
    /\ UNCHANGED << coordVars, caller, opVars, commitVars, aborts, facadeTxn,
                    facadeCommit, ret, touched, histCommit >>

\* the transport fills an Abort promise, or its timeout expires
AbortResolve(i, r) ==
    /\ pc \in {"abort_send", "abort_wait"}
    /\ i \in 1 .. Len(aborts)
    /\ aborts[i].state = "pending"
    /\ aborts' = [aborts EXCEPT ![i].state = "resolved", ![i].reply = r]
    /\ UNCHANGED << coordVars, pc, caller, opVars, commitVars, idx, facadeTxn,
                    facadeCommit, ret, touched, histCommit >>

\* for (auto p : promises) { p->GetReply(); delete p; }
AbortWait ==
    /\ pc = "abort_wait"
    /\ idx <= Len(aborts)
    /\ GetReplyReturns(aborts[idx])
    /\ aborts' = [aborts EXCEPT ![idx].deleted = TRUE]
    /\ idx' = idx + 1
    /\ UNCHANGED << coordVars, pc, caller, opVars, commitVars, facadeTxn,
                    facadeCommit, ret, touched, histCommit >>

\* Abort returns; in Commit: "Abort(); return false;"
AbortReturn ==
    /\ pc = "abort_wait"
    /\ idx > Len(aborts)
    /\ ret' = IF caller = "commit" THEN [op |-> "Commit", value |-> FALSE]
              ELSE [op |-> "Abort", value |-> "none"]
    /\ pc' = "idle"
    /\ participants' = Retained(participants)
    /\ UNCHANGED << client_id, t_id, caller, opVars, commitVars, idx, aborts,
                    facadeTxn, facadeCommit, touched, histCommit >>

Next ==
    \/ Begin
    \/ \E k \in Keys : Get(k)
    \/ \E k \in Keys : Put(k)
    \/ OpSend
    \/ \E r \in Replies : OpResolve(r)
    \/ OpReturn
    \/ CommitCall
    \/ CommitLoop
    \/ PrepareSend
    \/ PrepareVotes
    \/ \E i \in 1 .. NShards, r \in Replies, t \in Times :
            PrepareResolve(i, r, t)
    \/ PrepareReduce
    \/ PrepareReturn
    \/ CommitCheck
    \/ CommitDecide
    \/ CommitSend
    \/ CommitReturn
    \/ AbortCall
    \/ AbortSend
    \/ AbortSent
    \/ \E i \in 1 .. NShards, r \in Replies : AbortResolve(i, r)
    \/ AbortWait
    \/ AbortReturn

Spec == Init /\ [][Next]_vars

\* ------------------------------------------------------------- progress
\* the reply codes of the protocol
ProtocolReplies == {REPLY_OK, REPLY_FAIL, REPLY_RETRY, REPLY_TIMEOUT}

\* calls made by the application
Calls ==
    \/ Begin
    \/ \E k \in Keys : Get(k)
    \/ \E k \in Keys : Put(k)
    \/ CommitCall
    \/ AbortCall

\* steps of the calling thread inside a call
Steps ==
    \/ OpSend
    \/ OpReturn
    \/ CommitLoop
    \/ PrepareSend
    \/ PrepareVotes
    \/ PrepareReduce
    \/ PrepareReturn
    \/ CommitCheck
    \/ CommitDecide
    \/ CommitSend
    \/ CommitReturn
    \/ AbortSend
    \/ AbortSent
    \/ AbortWait
    \/ AbortReturn

\* every promise gets a reply of the protocol or times out
Resolves ==
    \/ \E r \in Replies : OpResolve(r)
    \/ \E i \in 1 .. NShards, r \in ProtocolReplies, t \in Times :
            PrepareResolve(i, r, t)
    \/ \E i \in 1 .. NShards, r \in Replies : AbortResolve(i, r)

LiveNext == Calls \/ Steps \/ Resolves

\* the calling thread keeps running and every promise resolves
LiveSpec ==
    Init /\ [][LiveNext]_vars /\ WF_vars(Steps) /\ WF_vars(Resolves)

\* ------------------------------------------------------------- properties
Max(S) == CHOOSE x \in S : \A y \in S : y <= x

CommitReturned == ret.op = "Commit"

AbortedAll == \A s \in participants : abortSent[s] >= 1

\* C1: Commit returns true if and only if every participant returned OK on
\* the Prepare round that ended the retry loop.
C1_TrueIffUnanimous ==
    CommitReturned => ((ret.value = TRUE) <=> unanimous)

C1_Witness ==
    /\ CommitReturned
    /\ ret.value = TRUE
    /\ rounds >= 2
    /\ Cardinality(participants) >= 2

\* C2: once a participant has returned FAIL in a Prepare round, no further
\* round is run, and when Commit returns it returns false after sending
\* Abort to every participant.
C2_FailAbortsAll ==
    /\ failRound # 0 => rounds = failRound
    /\ (CommitReturned /\ failRound # 0) =>
            (ret.value = FALSE /\ AbortedAll)

C2_Witness ==
    /\ CommitReturned
    /\ failRound = 2
    /\ Cardinality(participants) = NShards
    /\ \A s \in participants : abortSent[s] = 1

\* C3: a Commit call runs at most COMMIT_RETRIES Prepare rounds; when the
\* last round ended in RETRY it ran exactly COMMIT_RETRIES rounds, and only
\* then sends Abort to all participants and returns false.
C3_BoundedRounds ==
    /\ rounds <= COMMIT_RETRIES
    /\ (pc \in {"commit_decide", "abort_send", "abort_wait"}
            /\ status = REPLY_RETRY) => rounds = COMMIT_RETRIES
    /\ (CommitReturned /\ status = REPLY_RETRY) =>
            (rounds = COMMIT_RETRIES /\ ret.value = FALSE /\ AbortedAll)

C3_Witness ==
    /\ CommitReturned
    /\ status = REPLY_RETRY
    /\ rounds = COMMIT_RETRIES
    /\ ret.value = FALSE
    /\ participants # {}

RetryVotes == {i \in 1 .. Len(promises) : promises[i].reply = REPLY_RETRY}

\* C4: when a Prepare round returns RETRY, the candidate timestamp equals
\* max(clock reading of the round, largest timestamp proposed by a RETRY
\* vote of the round).
C4_RetryTimestampIsMax ==
    (pc = "commit_check" /\ status = REPLY_RETRY) =>
        timestamp.time = Max({now} \cup {promises[i].ts : i \in RetryVotes})

\* C5: the participant set is exactly the set of shards of the keys passed
\* to Get or Put since the most recent Begin.
C5_ParticipantsAreTouched == participants = touched

C5_Witness ==
    /\ pc = "idle"
    /\ ret.op = "Put"
    /\ t_id > (client_id \div 10000) * 10000
    /\ participants = {0, 1}

Contacted(s) == prepareSent[s] > 0 \/ commitSent[s] > 0 \/ abortSent[s] > 0

\* C6: a shard that Prepare, Commit or Abort sends a message to is in the
\* participant set and has had a Get or Put since the last Begin.
C6_OnlyParticipantsContacted ==
    \A s \in Shards : Contacted(s) => (s \in participants /\ forwarded[s])

C6_Witness ==
    /\ CommitReturned
    /\ participants = {0}
    /\ prepareSent[0] = 1 /\ prepareSent[1] = 0
    /\ abortSent[0] = 1 /\ abortSent[1] = 0

Silent == prepareSent = Zero /\ commitSent = Zero /\ abortSent = Zero

\* C7: Commit with an empty participant set stops at the assertion of
\* Prepare: nothing is sent to any shard and Commit does not return.
C7_EmptyCommitIsFatal ==
    participants = {} =>
        /\ pc \notin {"prepare_send", "prepare_reduce", "commit_check",
                      "commit_decide", "commit_send"}
        /\ ~ (pc \in {"abort_send", "abort_wait"} /\ caller = "commit")
        /\ ~ CommitReturned
        /\ pc \in {"commit_loop", "fatal"} => (Silent /\ ret = NoReturn)

C7_Witness ==
    /\ participants = {}
    /\ pc = "fatal"
    /\ rounds = 1

AbortReturned ==
    ret.op = "Abort" \/ (CommitReturned /\ ret.value = FALSE)

\* C8: Abort has sent its request to every participant before it waits on
\* any reply, and returns only when every handle has resolved; what it
\* sends and releases does not depend on the reply values.
C8_AbortJoinsAll ==
    /\ pc = "abort_send" => \A i \in 1 .. Len(aborts) : ~ aborts[i].deleted
    /\ pc = "abort_wait" =>
            /\ Len(aborts) = Cardinality(participants)
            /\ \A s \in participants : abortSent[s] = 1
    /\ AbortReturned =>
            /\ Len(aborts) = Cardinality(participants)
            /\ \A i \in 1 .. Len(aborts) :
                    aborts[i].state = "resolved" /\ aborts[i].deleted
            /\ \A s \in Shards :
                    abortSent[s] = IF s \in participants THEN 1 ELSE 0

C8_Witness ==
    /\ ret.op = "Abort"
    /\ Cardinality(participants) = NShards
    /\ \E i, j \in 1 .. Len(aborts) :
            aborts[i].reply = REPLY_FAIL /\ aborts[j].reply = REPLY_TIMEOUT

\* C9 as stated: whatever status Prepare returns, every promise of the round
\* has resolved by then.
C9_PrepareJoinsAll ==
    pc = "commit_check" =>
        \A i \in 1 .. Len(promises) : promises[i].state = "resolved"

\* C9, amended: when Prepare returns OK or RETRY every promise of the round
\* has resolved; when it returns FAIL, the promises up to and including the
\* first FAIL vote in participant order have resolved.
C9_PrepareJoinsUnlessFail ==
    pc = "commit_check" =>
        /\ Len(promises) = Cardinality(participants)
        /\ status \in {REPLY_OK, REPLY_RETRY} =>
                \A i \in 1 .. Len(promises) : promises[i].state = "resolved"
        /\ status = REPLY_FAIL =>
                \E k \in 1 .. Len(promises) :
                    /\ promises[k].reply = REPLY_FAIL
                    /\ \A i \in 1 .. k : promises[i].state = "resolved"
                    /\ \A i \in 1 .. (k - 1) : promises[i].reply # REPLY_FAIL

C9_Witness ==
    /\ pc = "commit_check"
    /\ status = REPLY_RETRY
    /\ Len(promises) = NShards
    /\ promises[1].reply = REPLY_RETRY
    /\ promises[NShards].reply = REPLY_TIMEOUT

\* C10: a shard that is forwarded a Get or Put has been sent Begin with the
\* current transaction id first, every participant has been sent Begin
\* exactly once in this transaction, all with the same id, and no other
\* shard has been sent one.
C10_BeginOncePerShard ==
    \A s \in Shards :
        /\ forwarded[s] => s \in participants
        /\ s \in participants => (began[s] = t_id /\ beginCount[s] = 1)
        /\ s \notin participants => beginCount[s] = 0

C10_Witness ==
    /\ pc = "put_send"
    /\ forwarded[opShard]
    /\ beginCount[opShard] = 1
    /\ Cardinality(participants) >= 2

BeginStep == pc = "idle" /\ pc' = "idle" /\ ret'.op = "Begin"

\* C11: a Begin call, in whatever state it is made, leaves the participant
\* set empty, raises the transaction id by exactly one and sends nothing to
\* any shard; the transaction id never decreases.
C11_BeginResets ==
    [][/\ t_id' >= t_id
       /\ BeginStep =>
            /\ participants' = {}
            /\ t_id' = t_id + 1
            /\ prepareSent' = Zero /\ commitSent' = Zero /\ abortSent' = Zero
            /\ beginCount' = Zero
            /\ began' = began]_vars

\* Begin has returned after discarding a transaction that had participants
C11_Witness ==
    /\ ret.op = "Begin"
    /\ participants = {}
    /\ \E s \in Shards : began[s] = t_id - 1

\* the votes of the round that have arrived
Votes == {promises[i].reply :
            i \in {j \in 1 .. Len(promises) : promises[j].state = "resolved"}}

Verdict(vs) == IF REPLY_FAIL \in vs THEN REPLY_FAIL
               ELSE IF vs \cap {REPLY_RETRY, REPLY_TIMEOUT} # {} THEN REPLY_RETRY
               ELSE REPLY_OK

\* C12: the status a Prepare round returns depends only on which votes were
\* cast, not on their order: FAIL if any vote is FAIL, otherwise RETRY if any
\* vote is RETRY or TIMEOUT, otherwise OK.
C12_StatusIsVerdict ==
    pc = "commit_check" => status = Verdict(Votes)

C12_Witness ==
    /\ pc = "commit_check"
    /\ status = REPLY_FAIL
    /\ Len(promises) >= 2
    /\ promises[1].reply = REPLY_TIMEOUT
    /\ promises[Len(promises)].reply = REPLY_FAIL

\* C13: when a Prepare round or an Abort round returns, every promise the
\* round created has been deleted.
C13_HandlesReleased ==
    /\ pc = "commit_check" =>
            \A i \in 1 .. Len(promises) : promises[i].deleted
    /\ AbortReturned => \A i \in 1 .. Len(aborts) : aborts[i].deleted

ExactlyOnce(sent) ==
    \A s \in Shards : sent[s] = IF s \in participants THEN 1 ELSE 0

\* C14: a Commit call never sends both a Commit and an Abort message; when
\* the final Prepare status is OK it has sent Commit to every participant
\* exactly once and no Abort, and when it is FAIL or RETRY it has sent Abort
\* to every participant exactly once and no Commit.
C14_DecisionIsExclusive ==
    /\ commitSent = Zero \/ abortSent = Zero
    /\ (CommitReturned /\ status = REPLY_OK) =>
            (ExactlyOnce(commitSent) /\ abortSent = Zero)
    /\ (CommitReturned /\ status \in {REPLY_FAIL, REPLY_RETRY}) =>
            (ExactlyOnce(abortSent) /\ commitSent = Zero)
    /\ CommitReturned => status \in {REPLY_OK, REPLY_FAIL, REPLY_RETRY}

C14_Witness ==
    /\ CommitReturned
    /\ status = REPLY_OK
    /\ Cardinality(participants) = NShards
    /\ \A s \in participants : commitSent[s] = 1

OpReturnStep == pc \in {"get_wait", "put_wait"} /\ pc' = "idle"

\* C16: a Get or Put whose promise resolved to a status other than OK hands
\* that status to the caller, sends no Prepare, Commit or Abort, and leaves
\* the transaction id and the participant set, with the touched shard in it,
\* as they were.
C16_FailedOpKeepsTransaction ==
    [][(OpReturnStep /\ opPromise # REPLY_OK) =>
            /\ ret'.value = opPromise
            /\ t_id' = t_id
            /\ participants' = participants
            /\ opShard \in participants'
            /\ began'[opShard] = t_id
            /\ prepareSent' = Zero /\ commitSent' = Zero /\ abortSent' = Zero
      ]_vars

C16_Witness ==
    /\ pc = "idle"
    /\ ret.op = "Get"
    /\ ret.value = REPLY_TIMEOUT
    /\ opShard \in participants

\* C17 as stated: Prepare never returns from a round in which some
\* participant's reply code is outside the protocol's set.
C17_UnknownReplyIsFatal ==
    pc = "commit_check" =>
        \A i \in 1 .. Len(promises) : promises[i].reply # REPLY_OTHER

\* C17, amended: a reply code outside the protocol's set stops the
\* coordinator in that round, before any Commit or Abort is sent and without
\* Commit returning, unless a participant earlier in participant order voted
\* FAIL; then Prepare returns FAIL without reading it.
C17_UnknownReplyIsFatalUnlessFail ==
    /\ pc = "commit_check" =>
            \A i \in 1 .. Len(promises) :
                promises[i].reply = REPLY_OTHER =>
                    /\ status = REPLY_FAIL
                    /\ \E k \in 1 .. (i - 1) : promises[k].reply = REPLY_FAIL
    /\ (pc = "fatal" /\ participants # {}) =>
            /\ promises[idx].reply = REPLY_OTHER
            /\ \A k \in 1 .. (idx - 1) : promises[k].reply # REPLY_FAIL
            /\ commitSent = Zero /\ abortSent = Zero
            /\ ret = NoReturn

C17_Witness ==
    /\ pc = "fatal"
    /\ Len(promises) >= 2
    /\ idx = Len(promises)
    /\ promises[idx].reply = REPLY_OTHER
    /\ promises[1].reply = REPLY_RETRY

InCall == {"commit_loop", "prepare_send", "prepare_reduce", "commit_check",
           "commit_decide", "commit_send", "abort_send", "abort_wait",
           "fatal"}

\* C18: no step of a Commit or Abort call changes the participant set or the
\* transaction id (so they are still those of the finished transaction when
\* the call has returned).
C18_CommitAbortKeepParticipants ==
    [][(pc \in InCall \/ pc' \in InCall) =>
            (participants' = participants /\ t_id' = t_id)]_vars

\* a Get on a shard touched before an earlier Commit of the same transaction
\* (no Begin was ever called, and the Commit went through a retry)
C18_Witness ==
    /\ pc = "get_send"
    /\ t_id = (client_id \div 10000) * 10000
    /\ retries > 0
    /\ forwarded[opShard]
    /\ beginCount[opShard] = 1

\* C15: every Prepare of a round carries the timestamp Commit holds for that
\* round, tagged with the client identifier: in the first round the clock
\* reading taken at Commit's entry, in a later round the timestamp the
\* preceding round produced; a round that returns OK or FAIL leaves the
\* timestamp as it was sent.
C15_RoundsUseCandidate ==
    /\ pc \in {"commit_loop", "prepare_send", "prepare_reduce"} =>
            /\ timestamp = candidate
            /\ timestamp.id = client_id
    /\ pc \in {"prepare_send", "prepare_reduce"} =>
            \A s \in Shards : prepareSent[s] > 0 => prepareTs[s] = candidate
    /\ (pc = "commit_check" /\ status \in {REPLY_OK, REPLY_FAIL}) =>
            \A s \in participants : prepareTs[s] = timestamp
    /\ (pc = "commit_check" /\ status = REPLY_RETRY) =>
            timestamp = candidate

C15_Witness ==
    /\ pc = "prepare_reduce"
    /\ rounds = 2
    /\ \A s \in Shards : prepareSent[s] = 1 /\ prepareTs[s] = candidate
    /\ candidate.time = MaxTime

\* C19: when every promise resolves to a reply of the protocol or times
\* out, a Commit call on a non-empty participant set eventually returns, and
\* so does every Abort call.
C19_CallsReturn ==
    /\ (pc = "commit_loop" /\ participants # {}) ~>
            (pc = "idle" /\ CommitReturned)
    /\ (pc = "abort_send") ~> (pc = "idle" /\ AbortReturned)

\* Commit has returned true from the last round the loop allows
C19_Witness ==
    /\ pc = "idle"
    /\ CommitReturned
    /\ ret.value = TRUE
    /\ rounds = COMMIT_RETRIES

====
